---- MODULE Spec2Model ----
(***************************************************************************)
(* State-machine model of batoms' per-species site object (Batom,          *)
(* src/batom.py) and of the site collection (Batoms, src/batoms.py).       *)
(*                                                                         *)
(* Numbers.  Occupancies are fixed-point: One stands for 1.0 and Tol for   *)
(* the tolerance 1e-6, so one unit is 1e-7.  Positions are integer         *)
(* 3-vectors.  Strings that the code splits (species labels) are tuples    *)
(* of one-character strings.                                               *)
(*                                                                         *)
(* Host.  The Blender scene is modelled by what the code reads and writes: *)
(* an object's mesh vertices, its shape-key blocks, its keyframes, its     *)
(* point attributes, the instancer's material slots and per-face material  *)
(* index.                                                                  *)
(***************************************************************************)
EXTENDS Integers, Sequences, FiniteSets, TLC

VARIABLES
    call,         \* the last operation called, with its arguments
    ret,          \* its outcome: the exception raised (err), or the value returned (val)
    b_obj,        \* Batom: obj_name is in bpy.data.objects
    b_species,    \* Batom: obj.batom.species
    b_elements,   \* Batom: obj.batom.elements, in insertion order
    b_verts,      \* Batom: obj.data.vertices (local coordinates)
    b_location,   \* Batom: obj.location
    b_keys,       \* Batom: obj.data.shape_keys.key_blocks (<<>> when shape_keys is None)
    b_kf,         \* Batom: keyframes on the key blocks' value
    b_frames,     \* Batom: self._frames
    b_inst,       \* Batom: instancer_name is in bpy.data.objects
    b_instancer,  \* Batom: the object of that name (identity, parent, scale, radius, shape)
    b_style,      \* Batom: obj.batom.radius_style
    b_mats,       \* elements that have a material in bpy.data.materials
    b_angles,     \* instancer mesh: the angle of every face's normal, in turns
    b_slots,      \* instancer mesh: material slots
    b_matidx,     \* instancer mesh: material_index of every face
    B_coll,       \* Batoms: label is in bpy.data.collections
    B_obj,        \* Batoms: label is in bpy.data.objects
    B_flag,       \* Batoms: that object's batoms.batom.flag
    B_polyhedra_style, \* Batoms: coll.batoms.polyhedra_style
    B_species,    \* Batoms: self._species, the composition table of every species label
    B_verts,      \* Batoms: obj.data.vertices (local coordinates)
    B_location,   \* Batoms: obj.location
    B_keys,       \* Batoms: obj.data.shape_keys.key_blocks (<<>> when shape_keys is None)
    B_kf,         \* Batoms: keyframes on the key blocks' value
    B_frames,     \* Batoms: self._frames
    B_attrs,      \* Batoms: obj.data.attributes, one sequence per attribute
    B_cell        \* Batoms: the three lattice vectors held by self._cell

bvars == <<b_obj, b_species, b_elements, b_verts, b_location, b_keys, b_kf,
           b_frames, b_inst, b_instancer, b_style, b_mats, b_angles, b_slots, b_matidx>>

Bvars == <<B_coll, B_obj, B_flag, B_polyhedra_style, B_species, B_verts, B_location, B_keys, B_kf, B_frames, B_attrs, B_cell>>

vars == <<call, ret, bvars, Bvars>>

-----------------------------------------------------------------------------
(* Fixed-point numbers and element symbols *)

One == 10000000
Tol == 10
Milli == 10000          \* 0.001, the grain of round(x, 3)

Al == <<"A", "l">>
Si == <<"S", "i">>
X  == <<"X">>

Symbols == {Al, Si, X}

\* Occupancies the inputs are drawn from: 5e-7, 0.3331, 0.3334, 1.0
OccSet == {5, 3331000, 3334000, One}

MaxEle == 2

NoElements == [kind |-> "none", sym |-> <<>>, items |-> <<>>]
StrElements(s) == [kind |-> "str", sym |-> s, items |-> <<>>]
DictElements(t) == [kind |-> "dict", sym |-> <<>>, items |-> t]

Names(t) == {t[i].name : i \in DOMAIN t}

\* A Python dict of element -> occupancy: its keys are distinct, its order is insertion order
Tables ==
    UNION {{t \in [1..n -> [name : Symbols, occupancy : OccSet]] :
                \A i, j \in 1..n : i # j => t[i].name # t[j].name} : n \in 0..MaxEle}

ElementInputs == {StrElements(s) : s \in Symbols} \cup {DictElements(t) : t \in Tables}

RECURSIVE SumOcc(_)
SumOcc(t) == IF t = <<>> THEN 0 ELSE t[1].occupancy + SumOcc(Tail(t))

\* dict[key] = value: replaces the value of an existing key in place, appends a new key
DictSet(t, key, value) ==
    IF key \in Names(t)
    THEN [i \in DOMAIN t |-> IF t[i].name = key THEN [name |-> key, occupancy |-> value] ELSE t[i]]
    ELSE Append(t, [name |-> key, occupancy |-> value])

DictGet(t, key) == LET i == CHOOSE i \in DOMAIN t : t[i].name = key IN t[i].occupancy

\* round(x, 3): to the nearest multiple of 0.001, a half to the even multiple
Round3(x) ==
    LET q == x \div Milli
        r == x % Milli
    IN  IF 2 * r < Milli THEN q * Milli
        ELSE IF 2 * r > Milli THEN (q + 1) * Milli
        ELSE IF q % 2 = 0 THEN q * Milli ELSE (q + 1) * Milli

\* sorted(items, key = lambda x: -x[1]): descending, stable
RECURSIVE SortDesc(_)
SortDesc(t) ==
    IF t = <<>> THEN <<>>
    ELSE LET i == CHOOSE i \in DOMAIN t :
                    /\ \A j \in DOMAIN t : t[j].occupancy <= t[i].occupancy
                    /\ \A j \in 1..(i - 1) : t[j].occupancy < t[i].occupancy
             rest == [k \in 1..(Len(t) - 1) |-> IF k < i THEN t[k] ELSE t[k + 1]]
         IN  <<t[i]>> \o SortDesc(rest)

-----------------------------------------------------------------------------
(* Batom: species composition *)

\* check_elements without the over-occupancy error
check_elements_accepts_over(elements) ==
    IF elements.kind = "str"
    THEN [err |-> "", elements |-> <<[name |-> elements.sym, occupancy |-> One]>>]
    ELSE LET occu == SumOcc(elements.items)
         IN  IF occu < One - Tol
             THEN [err |-> "", elements |-> DictSet(elements.items, X, One - occu)]
             ELSE [err |-> "", elements |-> elements.items]

\* Batom.check_elements
check_elements(elements) ==
    IF elements.kind = "str"
    THEN [err |-> "", elements |-> <<[name |-> elements.sym, occupancy |-> One]>>]
    ELSE LET occu == SumOcc(elements.items)
         IN  IF occu < One - Tol
             THEN [err |-> "", elements |-> DictSet(elements.items, X, One - occu)]
             ELSE IF occu > One + Tol
             THEN [err |-> "ValueError", elements |-> <<>>]
             ELSE [err |-> "", elements |-> elements.items]

\* Batom.get_elements: the stored table read back, occupancies rounded to 3 decimals
get_elements(stored) ==
    [i \in DOMAIN stored |-> [name |-> stored[i].name, occupancy |-> Round3(stored[i].occupancy)]]

\* main_element that falls back to the first entry when there is no second one
main_element_first_entry(stored) ==
    LET sorted_ele == SortDesc(get_elements(stored))
    IN  IF Len(sorted_ele) = 0 THEN [err |-> "IndexError", ele |-> <<>>]
        ELSE IF sorted_ele[1].name = X /\ Len(sorted_ele) >= 2
        THEN [err |-> "", ele |-> sorted_ele[2].name]
        ELSE [err |-> "", ele |-> sorted_ele[1].name]

\* Batom.main_element: the element returned, or the exception
main_element(stored) ==
    LET sorted_ele == SortDesc(get_elements(stored))
    IN  IF Len(sorted_ele) = 0 THEN [err |-> "IndexError", ele |-> <<>>]
        ELSE IF sorted_ele[1].name = X
        THEN IF Len(sorted_ele) < 2 THEN [err |-> "IndexError", ele |-> <<>>]
             ELSE [err |-> "", ele |-> sorted_ele[2].name]
        ELSE [err |-> "", ele |-> sorted_ele[1].name]

-----------------------------------------------------------------------------
(* Host: meshes, shape keys, keyframes *)

Vec(x, y, z) == <<x, y, z>>
VAdd(u, v) == <<u[1] + v[1], u[2] + v[2], u[3] + v[3]>>
VSub(u, v) == <<u[1] - v[1], u[2] - v[2], u[3] - v[3]>>
VScale(k, v) == <<k * v[1], k * v[2], k * v[3]>>
Origin == <<0, 0, 0>>

\* str.split('_')[0]: the characters before the first underscore
RECURSIVE SplitFirst(_)
SplitFirst(s) ==
    IF s = <<>> \/ s[1] = "_" THEN <<>> ELSE <<s[1]>> \o SplitFirst(Tail(s))

\* The name of the rest-pose key block ('Basis_<name>'); key block str(i) is named i
Basis == 0

HasKey(keys, name) == \E i \in DOMAIN keys : keys[i].name = name
KeyIndex(keys, name) == CHOOSE i \in DOMAIN keys : keys[i].name = name

\* obj.shape_key_add(name): a new key block holding the mesh's current vertices
shape_key_add(keys, name, verts) == Append(keys, [name |-> name, data |-> verts])

\* add_keyframe_to_shape_key(sk, 'value', values, frames): one keyframe per (value, frame),
\* a keyframe inserted at a time that already has one replaces it
add_keyframe_to_shape_key(kf, name, values, times) ==
    LET new == {[key |-> name, t |-> times[i], v |-> values[i]] : i \in DOMAIN times}
    IN  {k \in kf : ~\E n \in new : n.key = k.key /\ n.t = k.t} \cup new

\* The loop of set_frames over frames 1 .. nframe - 1 (frames[i] is frs[i + 1]); reshape
\* raises when a frame has not nvert positions, and what was written before stays
RECURSIVE SetFramesLoop(_, _, _, _, _, _)
SetFramesLoop(keys, kf, verts, frs, frame_start, i) ==
    LET nframe == Len(frs)
        nvert == Len(verts)
        keys1 == IF HasKey(keys, i) THEN keys ELSE shape_key_add(keys, i, verts)
        k == KeyIndex(keys1, i)
        keys2 == [keys1 EXCEPT ![k].data = frs[i + 1]]
        kf2 == IF i # nframe - 1
               THEN add_keyframe_to_shape_key(kf, i, <<0, 1, 0>>,
                        <<frame_start + i - 1, frame_start + i, frame_start + i + 1>>)
               ELSE add_keyframe_to_shape_key(kf, i, <<0, 1>>,
                        <<frame_start + i - 1, frame_start + i>>)
    IN  IF i > nframe - 1 THEN [err |-> "", keys |-> keys, kf |-> kf]
        ELSE IF Len(frs[i + 1]) # nvert THEN [err |-> "ValueError", keys |-> keys1, kf |-> kf]
        ELSE SetFramesLoop(keys2, kf2, verts, frs, frame_start, i + 1)

\* set_frames running its loop whatever only_basis is
set_frames_ignores_only_basis(keys, kf, verts, frs, frame_start, only_basis) ==
    LET keys1 == IF keys = <<>> \/ ~HasKey(keys, Basis)
                 THEN shape_key_add(keys, Basis, verts) ELSE keys
    IN  IF Len(frs) = 0 THEN [err |-> "", keys |-> keys, kf |-> kf]
        ELSE SetFramesLoop(keys1, kf, verts, frs, frame_start, 1)

\* Batom.set_frames / Batoms.set_frames on the object's key blocks and keyframes
set_frames(keys, kf, verts, frs, frame_start, only_basis) ==
    LET keys1 == IF keys = <<>> \/ ~HasKey(keys, Basis)
                 THEN shape_key_add(keys, Basis, verts) ELSE keys
    IN  IF Len(frs) = 0 THEN [err |-> "", keys |-> keys, kf |-> kf]
        ELSE IF only_basis THEN [err |-> "", keys |-> keys1, kf |-> kf]
        ELSE SetFramesLoop(keys1, kf, verts, frs, frame_start, 1)

-----------------------------------------------------------------------------
(* Batom: instancer and materials *)

\* The angle (atan2(ny, nx) + pi) / (2 pi) of every face normal of the instancer mesh.
\* CUBE: normals -y, +x, +y, -x, +z, -z (the z faces project to (0, 0), atan2 gives 0).
\* UV_SPHERE with segments = [4, 2]: two rings of four faces, centred in each quarter.
CubeAngles == <<One \div 4, One \div 2, (3 * One) \div 4, One, One \div 2, One \div 2>>
SphereAngles == <<One \div 8, (3 * One) \div 8, (5 * One) \div 8, (7 * One) \div 8,
                  One \div 8, (3 * One) \div 8, (5 * One) \div 8, (7 * One) \div 8>>
FaceAngles(shape) == IF shape = "CUBE" THEN CubeAngles ELSE SphereAngles

shapes == <<"UV_SPHERE", "ICO_SPHERE", "CUBE">>

\* The object bpy.data.objects holds under instancer_name; id 0 when there is none
NoInstancer == [id |-> 0, parent |-> FALSE, scale |-> <<>>, radius |-> 0, shape |-> ""]

\* A new object is an object other than the one the name held last
NewId(id) == IF id = 1 THEN 2 ELSE 1

\* batoms.tools.get_default_species_data(elements, radius_style)['radius']: the radius the
\* style's table gives for the main element (tenths of an angstrom)
RadiusStyles == {"covalent", "vdw"}
radius_table(ele, style) ==
    IF ele = Al THEN (IF style = "covalent" THEN 12 ELSE 18)
    ELSE IF ele = Si THEN (IF style = "covalent" THEN 11 ELSE 21)
    ELSE 10
get_default_species_data(stored, style) ==
    LET real == SelectSeq(SortDesc(stored), LAMBDA e : e.name # X)
    IN  radius_table(IF real = <<>> THEN X ELSE real[1].name, style)

\* Batom.build_instancer(radius, scale, shape): the object it leaves under instancer_name,
\* the object of that name, if any, removed first
build_instancer(old, radius, scale, shape) ==
    [id |-> NewId(old.id), parent |-> TRUE, scale |-> scale, radius |-> radius, shape |-> shape]

\* mesh.materials.clear() dropping the slots only
materials_clear_keeps_indices(matidx) == matidx

\* mesh.materials.clear(): the host drops the slots and resets every face to slot 0
materials_clear(matidx) == [f \in DOMAIN matidx |-> 0]

\* The loop of assign_materials over the elements 1 .. nele - 1 (sorted_ele[i] is sorted[i + 1])
RECURSIVE AssignLoop(_, _, _, _, _)
AssignLoop(sorted, angles, matidx, tos, i) ==
    IF i > Len(sorted) - 1 THEN matidx
    ELSE LET toe == tos + sorted[i + 1].occupancy
             new == [f \in DOMAIN matidx |->
                        IF angles[f] > tos /\ angles[f] < toe THEN i ELSE matidx[f]]
         IN  AssignLoop(sorted, angles, new, toe, i + 1)

\* assign_materials adding i to the index a face has, the indices not reset before
assign_materials_adds(stored, angles, matidx) ==
    LET sorted_ele == SortDesc(get_elements(stored))
        bands == IF Len(sorted_ele) > 1
                 THEN AssignLoop(sorted_ele, angles, [f \in DOMAIN matidx |-> 0], 0, 1)
                 ELSE [f \in DOMAIN matidx |-> 0]
    IN  [slots |-> [i \in DOMAIN sorted_ele |-> sorted_ele[i].name],
         matidx |-> [f \in DOMAIN matidx |-> matidx[f] + bands[f]]]

\* assign_materials numbering the slots of the bands from 1, the first band on slot 2
assign_materials_from_one(stored, angles, matidx) ==
    LET sorted_ele == SortDesc(get_elements(stored))
        bands == IF Len(sorted_ele) > 1
                 THEN AssignLoop(sorted_ele, angles, [f \in DOMAIN matidx |-> 0], 0, 1)
                 ELSE [f \in DOMAIN matidx |-> 0]
    IN  [slots |-> [i \in DOMAIN sorted_ele |-> sorted_ele[i].name],
         matidx |-> [f \in DOMAIN matidx |-> IF bands[f] > 0 THEN bands[f] + 1 ELSE 0]]

\* Batom.assign_materials: the slots and the face indices it leaves on the instancer mesh
assign_materials(stored, angles, matidx) ==
    LET sorted_ele == SortDesc(get_elements(stored))
        cleared == materials_clear(matidx)
    IN  [slots |-> [i \in DOMAIN sorted_ele |-> sorted_ele[i].name],
         matidx |-> IF Len(sorted_ele) > 1
                    THEN AssignLoop(sorted_ele, angles, cleared, 0, 1)
                    ELSE cleared]

\* Batom.build_material: a material for every element that has none
build_material(mats, elements) == mats \cup Names(elements)

-----------------------------------------------------------------------------
(* Batom: operations *)

Ok == [err |-> "", val |-> <<>>]
Raise(e) == [err |-> e, val |-> <<>>]
Return(v) == [err |-> "", val |-> v]

Fail(c, e) == call' = c /\ ret' = Raise(e)

\* Batom.__init__(species, positions, location, elements, shape) under a name not in use;
\* positions is a trajectory, a single position array being a trajectory of one frame
BatomInit(species, traj, location, elements, shape) ==
    LET c == [op |-> "Batom", species |-> species, elements |-> elements]
        positions == traj[1]
        given == IF elements.kind = "none" \/ (elements.kind = "dict" /\ elements.items = <<>>)
                 THEN StrElements(SplitFirst(species)) ELSE elements
        checked == check_elements(given)
        fresh == [f \in DOMAIN FaceAngles(shapes[shape + 1]) |-> 0]
        am == assign_materials(checked.elements, FaceAngles(shapes[shape + 1]), fresh)
        sf == set_frames(<<>>, {}, positions, traj, 0, TRUE)
        radius == get_default_species_data(checked.elements, "covalent")
    IN  /\ ~b_obj
        /\ IF checked.err # ""
           THEN Fail(c, checked.err) /\ UNCHANGED <<bvars, Bvars>>
           ELSE /\ call' = c
                /\ ret' = Ok
                /\ UNCHANGED Bvars
                /\ b_frames' = traj
                /\ b_obj' = TRUE
                /\ b_species' = species
                /\ b_verts' = positions
                /\ b_location' = location
                /\ b_elements' = checked.elements
                /\ b_mats' = build_material(b_mats, checked.elements)
                /\ b_inst' = TRUE
                /\ b_instancer' = build_instancer(b_instancer, radius, <<One, One, One>>, shapes[shape + 1])
                /\ b_style' = "covalent"
                /\ b_angles' = FaceAngles(shapes[shape + 1])
                /\ b_slots' = am.slots
                /\ b_matidx' = am.matidx
                /\ b_keys' = sf.keys
                /\ b_kf' = sf.kf

\* Batom.set_elements(elements)
BatomSetElements(elements) ==
    LET c == [op |-> "set_elements", elements |-> elements]
        checked == check_elements(elements)
        am == assign_materials(checked.elements, b_angles, b_matidx)
    IN  /\ b_obj
        /\ IF checked.err # ""
           THEN Fail(c, checked.err) /\ UNCHANGED <<bvars, Bvars>>
           ELSE /\ call' = c
                \* assign_materials reads self.instancer.data
                /\ ret' = IF b_inst THEN Ok ELSE Raise("AttributeError")
                /\ UNCHANGED Bvars
                /\ b_elements' = checked.elements
                /\ b_mats' = build_material(b_mats, checked.elements)
                /\ b_slots' = IF b_inst THEN am.slots ELSE b_slots
                /\ b_matidx' = IF b_inst THEN am.matidx ELSE b_matidx
                /\ UNCHANGED <<b_obj, b_species, b_verts, b_location, b_keys, b_kf,
                               b_frames, b_inst, b_instancer, b_style, b_angles>>

\* Batom.assign_materials()
BatomAssignMaterials ==
    LET c == [op |-> "assign_materials"]
        am == assign_materials(b_elements, b_angles, b_matidx)
    IN  /\ b_obj
        /\ IF ~b_inst
           THEN Fail(c, "AttributeError") /\ UNCHANGED <<bvars, Bvars>>
           ELSE /\ call' = c
                /\ ret' = Ok
                /\ b_slots' = am.slots
                /\ b_matidx' = am.matidx
                /\ UNCHANGED <<b_obj, b_species, b_elements, b_verts, b_location, b_keys, b_kf,
                               b_frames, b_inst, b_instancer, b_style, b_mats, b_angles, Bvars>>

\* The rebuild stopping after clean_batom_objects(instancer_name)
Rebuild_cleans_only(c, radius, scale, shape) ==
    /\ call' = c
    /\ ret' = Ok
    /\ b_inst' = FALSE
    /\ b_instancer' = NoInstancer
    /\ b_angles' = <<>>
    /\ b_slots' = <<>>
    /\ b_matidx' = <<>>
    /\ UNCHANGED <<b_obj, b_species, b_elements, b_verts, b_location, b_keys, b_kf,
                   b_frames, b_mats, Bvars>>

\* clean_batom_objects(instancer_name), then build_instancer(radius, scale, shape = shape)
\* with its assign_materials on the new mesh, then instancer.parent = self.obj
Rebuild(c, radius, scale, shape) ==
    LET angles == FaceAngles(shape)
        am == assign_materials(b_elements, angles, [f \in DOMAIN angles |-> 0])
    IN  /\ call' = c
        /\ ret' = Ok
        /\ b_instancer' = build_instancer(b_instancer, radius, scale, shape)
        /\ b_angles' = angles
        /\ b_slots' = am.slots
        /\ b_matidx' = am.matidx
        /\ UNCHANGED <<b_obj, b_species, b_elements, b_verts, b_location, b_keys, b_kf,
                       b_frames, b_inst, b_mats, Bvars>>

\* Batom.set_scale(scale), scale a number
BatomSetScale(scale) ==
    LET c == [op |-> "set_scale", scale |-> scale]
    IN  /\ b_obj
        /\ IF ~b_inst
           THEN Fail(c, "AttributeError") /\ UNCHANGED <<bvars, Bvars>>
           ELSE /\ call' = c
                /\ ret' = Ok
                /\ b_instancer' = [b_instancer EXCEPT !.scale = <<scale, scale, scale>>]
                /\ UNCHANGED <<b_obj, b_species, b_elements, b_verts, b_location, b_keys, b_kf,
                               b_frames, b_inst, b_style, b_mats, b_angles, b_slots,
                               b_matidx, Bvars>>

\* Batom.set_shape(shape)
BatomSetShape(shape) ==
    LET c == [op |-> "set_shape", shape |-> shape]
    IN  /\ b_obj
        /\ IF ~b_inst
           THEN Fail(c, "AttributeError") /\ UNCHANGED <<bvars, Bvars>>
           ELSE IF shape \notin {0, 1, 2}
           THEN Fail(c, "Exception") /\ UNCHANGED <<bvars, Bvars>>
           ELSE Rebuild(c, b_instancer.radius, b_instancer.scale, shapes[shape + 1])
                  /\ UNCHANGED b_style

\* Batom.set_subdivisions(subdivisions); isint is isinstance(subdivisions, int)
BatomSetSubdivisions(isint, subdivisions) ==
    LET c == [op |-> "set_subdivisions", isint |-> isint, subdivisions |-> subdivisions]
    IN  /\ b_obj
        /\ IF ~isint
           THEN Fail(c, "Exception") /\ UNCHANGED <<bvars, Bvars>>
           ELSE IF ~b_inst
           THEN Fail(c, "AttributeError") /\ UNCHANGED <<bvars, Bvars>>
           ELSE Rebuild(c, b_instancer.radius, b_instancer.scale, "ICO_SPHERE")
                  /\ UNCHANGED b_style

\* Batom.set_segments(segments); isint is isinstance(segments, int).  build_instancer
\* reads segments[0] and segments[1] of what it is given, after the object of
\* instancer_name was removed.
BatomSetSegments(isint, segments) ==
    LET c == [op |-> "set_segments", isint |-> isint, segments |-> segments]
    IN  /\ b_obj
        /\ IF ~isint
           THEN Fail(c, "Exception") /\ UNCHANGED <<bvars, Bvars>>
           ELSE IF ~b_inst
           THEN Fail(c, "AttributeError") /\ UNCHANGED <<bvars, Bvars>>
           ELSE /\ Fail(c, "TypeError")
                /\ b_inst' = FALSE
                /\ b_instancer' = NoInstancer
                /\ b_angles' = <<>>
                /\ b_slots' = <<>>
                /\ b_matidx' = <<>>
                /\ UNCHANGED <<b_obj, b_species, b_elements, b_verts, b_location, b_keys, b_kf,
                               b_frames, b_style, b_mats, Bvars>>

\* Batom.set_radius_style(radius_style)
BatomSetRadiusStyle(radius_style) ==
    LET c == [op |-> "set_radius_style", radius_style |-> radius_style]
        radius == get_default_species_data(get_elements(b_elements), radius_style)
    IN  /\ b_obj
        /\ b_style' = radius_style
        /\ IF ~b_inst
           THEN /\ Fail(c, "AttributeError")
                /\ UNCHANGED <<b_obj, b_species, b_elements, b_verts, b_location, b_keys, b_kf,
                               b_frames, b_inst, b_instancer, b_mats, b_angles, b_slots,
                               b_matidx, Bvars>>
           ELSE Rebuild(c, radius, b_instancer.scale, "UV_SPHERE")

\* Batom.main_element (a property read)
BatomMainElement ==
    LET r == main_element(b_elements)
    IN  /\ b_obj
        /\ call' = [op |-> "main_element"]
        /\ ret' = IF r.err # "" THEN Raise(r.err) ELSE Return(r.ele)
        /\ UNCHANGED <<bvars, Bvars>>

-----------------------------------------------------------------------------
(* Host: placement transform and mesh editing *)

\* batoms.tools.local2global for an object placed by its location alone:
\* global = local + location, and reversed: local = global - location
local2global(positions, location, reversed) ==
    [i \in DOMAIN positions |->
        IF reversed THEN VSub(positions[i], location) ELSE VAdd(positions[i], location)]

SubSeqFrom(q, n) == [i \in 1..(Len(q) - n) |-> q[n + i]]

\* bmesh: from_mesh, verts.new(pos) for every pos, to_mesh.  The mesh gets the new
\* vertices at its end; every key block grows by them, and the rest-pose block, which
\* is the active one, is written from the vertex coordinates.
bmesh_add(verts, keys, new) ==
    LET verts1 == verts \o new
    IN  [verts |-> verts1,
         keys |-> [k \in DOMAIN keys |->
                     IF k = 1 THEN [keys[k] EXCEPT !.data = verts1]
                     ELSE [keys[k] EXCEPT !.data = keys[k].data \o new]]]

\* The entries of q whose 0-based index is not in gone, in their order
RECURSIVE Keep(_, _, _)
Keep(q, gone, i) ==
    IF i > Len(q) THEN <<>>
    ELSE (IF (i - 1) \in gone THEN <<>> ELSE <<q[i]>>) \o Keep(q, gone, i + 1)

\* bmesh.ops.delete(bm, geom = [bm.verts[i] for i in index], context = 'VERTS')
bmesh_delete(q, index) == Keep(q, {index[j] : j \in DOMAIN index}, 1)

\* The indices of the true entries counted from 1
RECURSIVE np_where_from_one(_)
np_where_from_one(mask) ==
    IF mask = <<>> THEN <<>>
    ELSE np_where_from_one(SubSeq(mask, 1, Len(mask) - 1))
            \o (IF mask[Len(mask)] = 1 THEN <<Len(mask)>> ELSE <<>>)

\* np.where(mask)[0]: the 0-based indices of the true entries, ascending
RECURSIVE np_where(_)
np_where(mask) ==
    IF mask = <<>> THEN <<>>
    ELSE np_where(SubSeq(mask, 1, Len(mask) - 1))
            \o (IF mask[Len(mask)] = 1 THEN <<Len(mask) - 1>> ELSE <<>>)

\* np.dot((m0, m1, m2), cell)
np_dot(t, cell) == VAdd(VAdd(VScale(t[1], cell[1]), VScale(t[2], cell[2])), VScale(t[3], cell[3]))

\* vec.any()
any(vec) == \E i \in 1..3 : vec[i] # 0

\* m as the code uses it: an int m, held as <<m>>, stands for (m, m, m)
Mult(m) == IF Len(m) = 1 THEN <<m[1], m[1], m[1]>> ELSE m

\* The check of the lattice left out
undefined_lattice_unchecked(m, cell) == FALSE

\* for x, vec in zip(m, cell): if x != 1 and not vec.any(): raise
undefined_lattice(m, cell) == \E i \in 1..3 : m[i] # 1 /\ ~any(cell[i])

\* The loops nested the other way round, m0 innermost
RECURSIVE RepeatLoop_m0_innermost(_, _, _, _, _, _)
RepeatLoop_m0_innermost(positions, n, m, cell, t, i0) ==
    LET i1 == i0 + n
        moved == [i \in DOMAIN positions |->
                    IF i > i0 /\ i <= i1 THEN VAdd(positions[i], np_dot(t, cell))
                    ELSE positions[i]]
        next == IF t[1] + 1 < m[1] THEN <<t[1] + 1, t[2], t[3]>>
                ELSE IF t[2] + 1 < m[2] THEN <<0, t[2] + 1, t[3]>>
                ELSE <<0, 0, t[3] + 1>>
    IN  IF t[3] >= m[3] THEN positions
        ELSE RepeatLoop_m0_innermost(moved, n, m, cell, next, i1)

\* The three nested loops of repeat over (m0, m1, m2), m2 innermost: block i0 : i0 + n of
\* the tiled array gets np.dot((m0, m1, m2), cell) added, then i0 moves on by n
RECURSIVE RepeatLoop(_, _, _, _, _, _)
RepeatLoop(positions, n, m, cell, t, i0) ==
    LET i1 == i0 + n
        moved == [i \in DOMAIN positions |->
                    IF i > i0 /\ i <= i1 THEN VAdd(positions[i], np_dot(t, cell))
                    ELSE positions[i]]
        next == IF t[3] + 1 < m[3] THEN <<t[1], t[2], t[3] + 1>>
                ELSE IF t[2] + 1 < m[2] THEN <<t[1], t[2] + 1, 0>>
                ELSE <<t[1] + 1, 0, 0>>
    IN  IF t[1] >= m[1] THEN positions
        ELSE RepeatLoop(moved, n, m, cell, next, i1)

\* np.tile(a, (M, 1)): M copies of a, one after the other
RECURSIVE np_tile(_, _)
np_tile(a, M) == IF M <= 0 THEN <<>> ELSE a \o np_tile(a, M - 1)

\* np.tile followed by the loops: the repeated array
tile_translate(positions, m, cell) ==
    RepeatLoop(np_tile(positions, m[1] * m[2] * m[3]), Len(positions), m, cell, <<0, 0, 0>>, 0)

\* get_frames: every key block in global coordinates
get_frames(keys, location) == [i \in DOMAIN keys |-> local2global(keys[i].data, location, FALSE)]

-----------------------------------------------------------------------------
(* Batom: sites *)

\* Batom.get_positions
BatomGetPositions == local2global(b_verts, b_location, FALSE)

\* Batom.set_positions(positions)
BatomSetPositions(positions) ==
    LET c == [op |-> "Batom.set_positions", positions |-> positions]
        natom == Len(b_verts)
    IN  /\ b_obj
        /\ IF Len(positions) # natom
           THEN Fail(c, "ValueError") /\ UNCHANGED <<bvars, Bvars>>
           ELSE /\ call' = c
                /\ ret' = Ok
                /\ b_verts' = local2global(positions, b_location, TRUE)
                /\ UNCHANGED <<b_obj, b_species, b_elements, b_location, b_keys, b_kf,
                               b_frames, b_inst, b_instancer, b_style, b_mats, b_angles, b_slots, b_matidx, Bvars>>

\* Batom.set_frames(frames, frame_start, only_basis)
BatomSetFrames(frames, frame_start, only_basis) ==
    LET c == [op |-> "Batom.set_frames", frames |-> frames, frame_start |-> frame_start,
              only_basis |-> only_basis]
        sf == set_frames(b_keys, b_kf, b_verts, frames, frame_start, only_basis)
    IN  /\ b_obj
        /\ call' = c
        /\ ret' = IF sf.err # "" THEN Raise(sf.err) ELSE Ok
        /\ b_keys' = sf.keys
        /\ b_kf' = sf.kf
        /\ UNCHANGED <<b_obj, b_species, b_elements, b_verts, b_location,
                       b_frames, b_inst, b_instancer, b_style, b_mats, b_angles, b_slots, b_matidx, Bvars>>

\* Batom.repeat(m, cell)
BatomRepeat(m0, cell) ==
    LET c == [op |-> "Batom.repeat", m |-> m0, cell |-> cell]
        m == Mult(m0)
        n == Len(b_verts)
        frames == get_frames(b_keys, b_location)
        positions == tile_translate(BatomGetPositions, m, cell)
        added == bmesh_add(b_verts, b_keys,
                           local2global(SubSeqFrom(positions, n), b_location, TRUE))
        frames_new == IF Len(b_keys) > 1
                      THEN [i \in DOMAIN frames |-> tile_translate(frames[i], m, cell)]
                      ELSE <<>>
        sf == set_frames(added.keys, b_kf, added.verts, frames_new, 0, FALSE)
    IN  /\ b_obj
        /\ IF undefined_lattice(m, cell)
           THEN Fail(c, "ValueError") /\ UNCHANGED <<bvars, Bvars>>
           ELSE /\ call' = c
                /\ ret' = IF sf.err # "" THEN Raise(sf.err) ELSE Ok
                /\ b_verts' = added.verts
                /\ b_keys' = sf.keys
                /\ b_kf' = sf.kf
                /\ UNCHANGED <<b_obj, b_species, b_elements, b_location,
                               b_frames, b_inst, b_instancer, b_style, b_mats, b_angles, b_slots, b_matidx, Bvars>>

\* A selection: a boolean mask (True held as 1, False as 0) or a list of indices
Mask(items) == [kind |-> "mask", items |-> items]
List(items) == [kind |-> "list", items |-> items]

\* isinstance(index[0], (bool, np.bool_))
IsMask(index) == index.kind = "mask"

\* Batom.delete / Batoms.delete: the index list handed to delete_verts
delete_index(index) == IF IsMask(index) THEN np_where(index.items) ELSE index.items

\* Batom.delete(index), with delete_verts
BatomDelete(index) ==
    LET c == [op |-> "Batom.delete", index |-> index]
        idx == delete_index(index)
        left == bmesh_delete(b_verts, idx)
    IN  /\ b_obj
        /\ IF index.items = <<>>
           THEN Fail(c, "IndexError") /\ UNCHANGED <<bvars, Bvars>>
           ELSE IF Len(left) = 0 /\ ~b_inst
           THEN Fail(c, "TypeError") /\ UNCHANGED <<bvars, Bvars>>
           ELSE IF Len(left) = 0
           THEN /\ call' = c
                /\ ret' = Ok
                /\ b_inst' = FALSE
                /\ b_instancer' = NoInstancer
                /\ b_style' = ""
                /\ b_obj' = FALSE
                /\ b_verts' = <<>>
                /\ b_keys' = <<>>
                /\ b_kf' = {}
                /\ b_elements' = <<>>
                /\ b_species' = <<>>
                /\ b_location' = Origin
                /\ b_angles' = <<>>
                /\ b_slots' = <<>>
                /\ b_matidx' = <<>>
                /\ UNCHANGED <<b_frames, b_mats, Bvars>>
           ELSE /\ call' = c
                /\ ret' = Ok
                /\ b_verts' = left
                /\ b_keys' = [k \in DOMAIN b_keys |->
                                [b_keys[k] EXCEPT !.data =
                                    IF k = 1 THEN left ELSE bmesh_delete(b_keys[k].data, idx)]]
                /\ UNCHANGED <<b_obj, b_species, b_elements, b_location, b_kf,
                               b_frames, b_inst, b_instancer, b_style, b_mats, b_angles, b_slots, b_matidx, Bvars>>

-----------------------------------------------------------------------------
(* Batoms: sites *)

\* batoms.tools.string2Number: a number standing for the label, its characters read
\* as the digits of a number
CharCode(ch) ==
    CASE ch = "A" -> 1 [] ch = "l" -> 2 [] ch = "S" -> 3 [] ch = "i" -> 4
      [] ch = "X" -> 5 [] ch = "_" -> 6 [] ch = "1" -> 7 [] ch = "u" -> 8
      [] ch = "p" -> 9 [] OTHER -> 10

RECURSIVE string2Number(_)
string2Number(s) ==
    IF s = <<>> THEN 0 ELSE CharCode(s[1]) + 16 * string2Number(Tail(s))

\* default_attributes, as a new mesh holds them: one value per vertex
default_attributes(n) ==
    [scale |-> [i \in 1..n |-> 0], species_index |-> [i \in 1..n |-> 0],
     species |-> [i \in 1..n |-> <<>>], show |-> [i \in 1..n |-> 0],
     select |-> [i \in 1..n |-> 0], model_style |-> [i \in 1..n |-> 0],
     radius_style |-> [i \in 1..n |-> 0]]

\* The tiling with the species_index array laid out from its last entry to its first
tile_attributes_index_reversed(attrs, M) ==
    [key \in DOMAIN attrs |->
        LET t == np_tile(attrs[key], M)
        IN  IF key = "species_index" THEN [i \in DOMAIN t |-> t[Len(t) + 1 - i]] ELSE t]

\* for key, data in attributes.items(): attributes[key] = np.tile(data, (M,))
tile_attributes(attrs, M) == [key \in DOMAIN attrs |-> np_tile(attrs[key], M)]

\* the point attributes of the vertices that bmesh.ops.delete leaves
delete_attributes(attrs, index) == [key \in DOMAIN attrs |-> bmesh_delete(attrs[key], index)]

\* Bcell.repeat(m): every lattice vector multiplied by its multiplicity, in place
cell_repeat(cell, m) == [i \in 1..3 |-> VScale(m[i], cell[i])]

\* {element: 1.0}, the table of a species of one element
Pure(element) == <<[name |-> element, occupancy |-> One]>>

\* species.split('_1')[0]
Split_1(s) ==
    LET at == {i \in 1..(Len(s) - 1) : s[i] = "_" /\ s[i + 1] = "1"}
    IN  IF at = {} THEN s ELSE SubSeq(s, 1, (CHOOSE i \in at : \A j \in at : i <= j) - 1)

\* Batoms.set_attribute_with_indices(name, indices, data) with a boolean mask as indices
set_attribute_with_indices(attrs, name, mask, data) ==
    [attrs EXCEPT ![name] = [i \in DOMAIN @ |-> IF mask[i] THEN data ELSE @[i]]]

\* np.where(self.model_style == s, True, False)
StyleMask(attrs, s) == [i \in DOMAIN attrs.model_style |-> attrs.model_style[i] = s]

\* The species1 of the bond pairs whose polyhedra flag is set
PolyhedraSpecies == {Al}

\* Batoms.draw_space_filling(scale = 1.0)
draw_space_filling(attrs) ==
    set_attribute_with_indices(attrs, "scale", StyleMask(attrs, 0), One)

\* Batoms.draw_ball_and_stick(scale = 0.4)
draw_ball_and_stick(attrs) ==
    set_attribute_with_indices(attrs, "scale", StyleMask(attrs, 1), (4 * One) \div 10)

\* Batoms.draw_polyhedra(scale = 0.4)
draw_polyhedra(attrs, polyhedra_style) ==
    LET mask == StyleMask(attrs, 2)
        scale == (4 * One) \div 10
        shown == set_attribute_with_indices(attrs, "show", mask, 1)
        mask1 == [i \in DOMAIN mask |-> attrs.species[i] \in PolyhedraSpecies]
        rest == [i \in DOMAIN mask |-> mask[i] /\ ~mask1[i]]
    IN  CASE polyhedra_style \in {0, 1} ->
                set_attribute_with_indices(shown, "scale", mask, scale)
          [] polyhedra_style = 2 ->
                set_attribute_with_indices(
                    set_attribute_with_indices(shown, "scale", mask1, scale), "show", rest, 0)
          [] polyhedra_style = 3 ->
                set_attribute_with_indices(shown, "show", mask, 0)
          [] OTHER -> shown

\* Batoms.draw_wireframe()
draw_wireframe(attrs) ==
    LET mask == StyleMask(attrs, 3)
    IN  set_attribute_with_indices(
            set_attribute_with_indices(attrs, "show", mask, 0), "scale", mask, One \div 10000)

\* Batoms.draw: the attributes it leaves
draw(attrs, polyhedra_style) ==
    draw_wireframe(
        draw_polyhedra(draw_ball_and_stick(draw_space_filling(attrs)), polyhedra_style))

\* Batoms.set_model_style(model_style)
BatomsSetModelStyle(model_style) ==
    LET c == [op |-> "Batoms.set_model_style", model_style |-> model_style]
        styled == [B_attrs EXCEPT !.model_style = [i \in DOMAIN @ |-> model_style]]
    IN  /\ B_obj /\ B_flag
        /\ call' = c
        /\ ret' = Ok
        /\ B_attrs' = draw(styled, B_polyhedra_style)
        /\ UNCHANGED <<B_coll, B_obj, B_flag, B_polyhedra_style, B_species, B_verts, B_location,
                       B_keys, B_kf, B_frames, B_cell, bvars>>

\* Batoms.polyhedra_style = polyhedra_style
BatomsSetPolyhedraStyle(polyhedra_style) ==
    /\ B_obj /\ B_flag
    /\ call' = [op |-> "Batoms.polyhedra_style", polyhedra_style |-> polyhedra_style]
    /\ ret' = Ok
    /\ B_polyhedra_style' = polyhedra_style
    /\ UNCHANGED <<B_coll, B_obj, B_flag, B_species, B_verts, B_location, B_keys, B_kf,
                   B_frames, B_attrs, B_cell, bvars>>

\* Batoms.set_scale(scale); scale is a number (kind "num") or a mapping from species
\* label to value (kind "dict").  np.ones(len(self)) * scale comes first and raises on
\* a mapping.
BatomsSetScale(scale) ==
    LET c == [op |-> "Batoms.set_scale", scale |-> scale]
    IN  /\ B_obj /\ B_flag
        /\ IF scale.kind = "dict"
           THEN Fail(c, "TypeError") /\ UNCHANGED <<bvars, Bvars>>
           ELSE /\ call' = c
                /\ ret' = Ok
                /\ B_attrs' = [B_attrs EXCEPT !.scale = [i \in DOMAIN @ |-> scale.val]]
                /\ UNCHANGED <<B_coll, B_obj, B_flag, B_polyhedra_style, B_species, B_verts,
                               B_location, B_keys, B_kf, B_frames, B_cell, bvars>>

\* Batoms.set_size(size): it builds the mapping {species: [size / radius] * 3} and
\* hands it to set_scale; a lookup on the way may raise before that does
BatomsSetSize(size) ==
    /\ B_obj /\ B_flag
    /\ \E e \in {"KeyError", "TypeError"} :
          Fail([op |-> "Batoms.set_size", size |-> size], e)
    /\ UNCHANGED <<bvars, Bvars>>

\* bpy.data.objects.new(label, mesh): an object of the name the Batoms is to take, made
\* by the host and not a batoms object
HostObject ==
    /\ ~B_obj
    /\ call' = [op |-> "bpy.data.objects.new"]
    /\ ret' = Ok
    /\ B_obj' = TRUE
    /\ UNCHANGED <<B_coll, B_flag, B_polyhedra_style, B_species, B_verts, B_location, B_keys, B_kf,
                   B_frames, B_attrs, B_cell, bvars>>

\* Batoms.get_positions
BatomsGetPositions == local2global(B_verts, B_location, FALSE)

\* The attributes Batoms.__init__ sets on natom sites, with scale = 1.0
init_attributes(species, natom) ==
    [default_attributes(natom) EXCEPT
        !.species = species,
        !.species_index = [i \in DOMAIN species |-> string2Number(species[i])],
        !.scale = [i \in 1..natom |-> One],
        !.show = [i \in 1..natom |-> 1]]

\* Batoms(label, species, positions, cell, location, scale = 1.0, movie)
BatomsInit(species, positions, cell, location, movie) ==
    LET c == [op |-> "Batoms", species |-> species, positions |-> positions,
              cell |-> cell, location |-> location, movie |-> movie]
        natom == Len(positions)
        frames == <<positions>>
        attributes == init_attributes(species, natom)
        sf == set_frames(<<>>, {}, positions, frames, 0, FALSE)
        species_props == {[label |-> species[i], elements |-> Pure(SplitFirst(species[i]))] :
                             i \in DOMAIN species}
    IN  /\ IF B_coll
           THEN Fail(c, "Exception") /\ UNCHANGED <<bvars, Bvars>>
           ELSE IF B_obj /\ ~B_flag
           \* set_collection has made the collection and its sub-collections when
           \* build_object finds the name held by an object that is no batoms object
           THEN /\ Fail(c, "Exception")
                /\ B_coll' = TRUE
                /\ UNCHANGED <<B_obj, B_flag, B_polyhedra_style, B_species, B_verts, B_location, B_keys, B_kf,
                               B_frames, B_attrs, B_cell, bvars>>
           ELSE /\ call' = c
                /\ ret' = Ok
                /\ B_coll' = TRUE
                /\ B_obj' = TRUE
                /\ B_flag' = TRUE
                /\ B_polyhedra_style' = 0
                /\ B_species' = species_props
                /\ B_verts' = positions
                /\ B_location' = location
                /\ B_frames' = frames
                /\ B_attrs' = attributes
                /\ B_cell' = cell
                /\ B_keys' = IF movie THEN sf.keys ELSE <<>>
                /\ B_kf' = IF movie THEN sf.kf ELSE {}
                /\ UNCHANGED bvars

\* Batoms.set_positions without the check of the length
BatomsSetPositions_unchecked(positions) ==
    LET c == [op |-> "Batoms.set_positions", positions |-> positions]
        local == local2global(positions, B_location, TRUE)
    IN  /\ B_obj
        /\ IF B_keys = <<>>
           THEN Fail(c, "AttributeError") /\ UNCHANGED <<bvars, Bvars>>
           ELSE /\ call' = c
                /\ ret' = Ok
                /\ B_keys' = [B_keys EXCEPT ![1].data = local]
                /\ B_verts' = local
                /\ UNCHANGED <<B_coll, B_obj, B_flag, B_polyhedra_style, B_species, B_location, B_kf, B_frames, B_attrs, B_cell, bvars>>

\* Batoms.set_positions(positions)
BatomsSetPositions(positions) ==
    LET c == [op |-> "Batoms.set_positions", positions |-> positions]
        natom == Len(B_verts)
        local == local2global(positions, B_location, TRUE)
    IN  /\ B_obj
        /\ IF Len(positions) # natom
           THEN Fail(c, "ValueError") /\ UNCHANGED <<bvars, Bvars>>
           ELSE IF B_keys = <<>>
           THEN Fail(c, "AttributeError") /\ UNCHANGED <<bvars, Bvars>>
           ELSE /\ call' = c
                /\ ret' = Ok
                /\ B_keys' = [B_keys EXCEPT ![1].data = local]
                /\ B_verts' = local
                /\ UNCHANGED <<B_coll, B_obj, B_flag, B_polyhedra_style, B_species, B_location, B_kf, B_frames, B_attrs, B_cell, bvars>>

\* Batoms.set_frames(frames, frame_start, only_basis); with no frames given (frames is
\* None) it reads self._frames
BatomsSetFrames(given, frames, frame_start, only_basis) ==
    LET c == [op |-> "Batoms.set_frames", given |-> given, frames |-> frames,
              frame_start |-> frame_start, only_basis |-> only_basis]
        frs == IF ~given THEN B_frames ELSE frames
        sf == set_frames(B_keys, B_kf, B_verts, frs, frame_start, only_basis)
    IN  /\ B_obj
        /\ call' = c
        /\ ret' = IF sf.err # "" THEN Raise(sf.err) ELSE Ok
        /\ B_keys' = sf.keys
        /\ B_kf' = sf.kf
        /\ UNCHANGED <<B_coll, B_obj, B_flag, B_polyhedra_style, B_species, B_verts, B_location, B_frames, B_attrs, B_cell, bvars>>

\* Batoms.__imul__(m), which repeat(m) and batoms * m run
BatomsImul(how, m0) ==
    LET c == [op |-> how, m |-> m0]
        cell == B_cell
        m == Mult(m0)
        M == m[1] * m[2] * m[3]
        n == Len(B_verts)
        frames == get_frames(B_keys, B_location)
        positions == tile_translate(BatomsGetPositions, m, cell)
        attributes == tile_attributes(B_attrs, M)
        added == bmesh_add(B_verts, B_keys,
                           local2global(SubSeqFrom(positions, n), B_location, TRUE))
        cell1 == cell_repeat(B_cell, m)
        \* cell is self._cell itself: after self.cell.repeat(m) it is the repeated cell
        frames_new == IF Len(B_keys) > 1
                      THEN [i \in DOMAIN frames |-> tile_translate(frames[i], m, cell1)]
                      ELSE <<>>
        sf == set_frames(added.keys, B_kf, added.verts, frames_new, 0, FALSE)
    IN  /\ B_obj
        /\ IF undefined_lattice(m, cell)
           THEN Fail(c, "ValueError") /\ UNCHANGED <<bvars, Bvars>>
           ELSE /\ call' = c
                \* __imul__ has no return statement: "b *= m" binds b to None, and
                \* repeat returns the name its "self *= m" has bound to None; only
                \* __mul__, which drops what repeat returns, returns the Batoms
                /\ ret' = IF sf.err # "" THEN Raise(sf.err)
                          ELSE IF how = "Batoms.__mul__" THEN Return(<<"self">>)
                          ELSE Ok
                /\ B_verts' = added.verts
                /\ B_attrs' = attributes
                /\ B_cell' = cell1
                /\ B_keys' = sf.keys
                /\ B_kf' = sf.kf
                /\ UNCHANGED <<B_coll, B_obj, B_flag, B_polyhedra_style, B_species, B_location, B_frames, bvars>>

\* Batoms.repeat
BatomsRepeat(m0) == BatomsImul("Batoms.repeat", m0)

\* Batoms.replace(indices, species, elements); indices is a list of site numbers
BatomsReplace(indices, species, elements) ==
    LET c == [op |-> "Batoms.replace", indices |-> indices, species |-> species,
              elements |-> elements]
        known == \E r \in B_species : r.label = species
        given == IF elements.kind = "none" THEN Pure(Split_1(species)) ELSE elements.items
        hit(i) == \E j \in DOMAIN indices : indices[j] = i - 1
    IN  /\ B_obj
        /\ B_species' = IF known THEN B_species
                        ELSE B_species \cup {[label |-> species, elements |-> given]}
        /\ IF \E j \in DOMAIN indices : indices[j] >= Len(B_verts)
           THEN /\ Fail(c, "IndexError")
                /\ UNCHANGED <<B_coll, B_obj, B_flag, B_polyhedra_style, B_verts, B_location, B_keys, B_kf, B_frames,
                               B_attrs, B_cell, bvars>>
           ELSE /\ call' = c
                /\ ret' = Ok
                /\ B_attrs' = [B_attrs EXCEPT
                       !.species = [i \in DOMAIN @ |-> IF hit(i) THEN species ELSE @[i]],
                       !.species_index = [i \in DOMAIN @ |->
                                           IF hit(i) THEN string2Number(species) ELSE @[i]]]
                /\ UNCHANGED <<B_coll, B_obj, B_flag, B_polyhedra_style, B_verts, B_location, B_keys, B_kf, B_frames,
                               B_cell, bvars>>

\* bpy.ops.object.join() with the sites' object active and other's object selected, with
\* the vertices of other put after those of the active object
host_join_other_first(verts, location, keys, other) ==
    LET moved(q) == [i \in DOMAIN q |-> VSub(VAdd(q[i], other.location), location)]
    IN  [verts |-> moved(other.verts) \o verts,
         keys |-> [k \in DOMAIN keys |->
                      [keys[k] EXCEPT !.data = moved(other.verts) \o @]]]

\* bpy.ops.object.join() with the sites' object active and other's object selected: the
\* host appends other's vertices, where they are in the scene, to the active mesh, to
\* every key block of the active mesh (from other's key block of that name, if any),
\* and adds the key blocks that other alone has
host_join(verts, location, keys, other) ==
    LET moved(q) == [i \in DOMAIN q |-> VSub(VAdd(q[i], other.location), location)]
        added == SelectSeq(other.keys, LAMBDA k : ~HasKey(keys, k.name))
        names == [k \in DOMAIN keys |-> keys[k].name]
                    \o [k \in DOMAIN added |-> added[k].name]
        mine(name) == IF HasKey(keys, name) THEN keys[KeyIndex(keys, name)].data ELSE verts
        theirs(name) == IF HasKey(other.keys, name)
                        THEN other.keys[KeyIndex(other.keys, name)].data ELSE other.verts
    IN  [verts |-> verts \o moved(other.verts),
         keys |-> [k \in DOMAIN names |->
                      [name |-> names[k], data |-> mine(names[k]) \o moved(theirs(names[k]))]]]

\* The key block 'Basis_<name>' of another object
OtherBasis == 0 - 1

\* A Batom or a Batoms of another name, as its constructor leaves it
OtherBatom(positions, location) ==
    [verts |-> positions, location |-> location,
     keys |-> <<[name |-> OtherBasis, data |-> positions]>>]
OtherBatoms(species, positions, location, movie) ==
    [verts |-> positions, location |-> location,
     keys |-> IF movie THEN <<[name |-> OtherBasis, data |-> positions]>> ELSE <<>>,
     attrs |-> init_attributes(species, Len(positions)),
     species |-> {[label |-> species[i], elements |-> Pure(SplitFirst(species[i]))] :
                     i \in DOMAIN species}]

\* Batom.extend(other), and self += other and self + other (how), which return self
BatomExtend(how, other) ==
    LET c == [op |-> "Batom.extend", how |-> how, other |-> other]
        joined == host_join(b_verts, b_location, b_keys, other)
    IN  /\ b_obj
        /\ call' = c
        /\ ret' = IF how = "extend" THEN Ok ELSE Return(<<"self">>)
        /\ b_verts' = joined.verts
        /\ b_keys' = joined.keys
        /\ UNCHANGED <<b_obj, b_species, b_elements, b_location, b_kf, b_frames, b_inst,
                       b_instancer, b_style, b_mats, b_angles, b_slots, b_matidx, Bvars>>

\* Batoms.extend(other), and self += other and self + other (how), which return self
BatomsExtend(how, other) ==
    LET c == [op |-> "Batoms.extend", how |-> how, other |-> other]
        joined == host_join(B_verts, B_location, B_keys, other)
    IN  /\ B_obj
        /\ call' = c
        /\ ret' = IF how = "extend" THEN Ok ELSE Return(<<"self">>)
        /\ B_verts' = joined.verts
        /\ B_keys' = joined.keys
        /\ B_attrs' = [key \in DOMAIN B_attrs |-> B_attrs[key] \o other.attrs[key]]
        /\ B_species' = B_species \cup other.species
        /\ UNCHANGED <<B_coll, B_obj, B_flag, B_polyhedra_style, B_location, B_kf, B_frames, B_cell, bvars>>

\* Batoms.delete(index), with delete_verts.  When no vertex is left, delete_verts reads
\* self.instancer, which Batoms does not have, before it removes anything.
BatomsDelete(index) ==
    LET c == [op |-> "Batoms.delete", index |-> index]
        idx == delete_index(index)
        left == bmesh_delete(B_verts, idx)
    IN  /\ B_obj
        /\ IF index.items = <<>>
           THEN Fail(c, "IndexError") /\ UNCHANGED <<bvars, Bvars>>
           ELSE IF Len(left) = 0
           THEN Fail(c, "AttributeError") /\ UNCHANGED <<bvars, Bvars>>
           ELSE /\ call' = c
                /\ ret' = Ok
                /\ B_verts' = left
                /\ B_keys' = [k \in DOMAIN B_keys |->
                                [B_keys[k] EXCEPT !.data =
                                    IF k = 1 THEN left ELSE bmesh_delete(B_keys[k].data, idx)]]
                /\ B_attrs' = delete_attributes(B_attrs, idx)
                /\ UNCHANGED <<B_coll, B_obj, B_flag, B_polyhedra_style, B_species, B_location, B_kf, B_frames, B_cell, bvars>>

-----------------------------------------------------------------------------
(* The scene before anything is built *)

NoCall == [op |-> "none"]

BatomAbsent ==
    /\ b_obj = FALSE
    /\ b_species = <<>>
    /\ b_elements = <<>>
    /\ b_verts = <<>>
    /\ b_location = Origin
    /\ b_keys = <<>>
    /\ b_kf = {}
    /\ b_frames = <<>>
    /\ b_inst = FALSE
    /\ b_instancer = NoInstancer
    /\ b_style = ""
    /\ b_mats = {}
    /\ b_angles = <<>>
    /\ b_slots = <<>>
    /\ b_matidx = <<>>

BatomsAbsent ==
    /\ B_coll = FALSE
    /\ B_obj = FALSE
    /\ B_flag = FALSE
    /\ B_polyhedra_style = 0
    /\ B_species = {}
    /\ B_verts = <<>>
    /\ B_location = Origin
    /\ B_keys = <<>>
    /\ B_kf = {}
    /\ B_frames = <<>>
    /\ B_attrs = <<>>
    /\ B_cell = <<Origin, Origin, Origin>>

-----------------------------------------------------------------------------------------------------------------------------------------------------
(* SpecSpecies: a species is defined from a table check_elements accepts (or from no     *)
(* table), then its composition is replaced and its main element queried.               *)
(* SpecOver: the same operations, called with every over-occupied table and a few        *)
(* accepted ones.                                                                        *)

Al_1 == <<"A", "l", "_", "1">>

Over(e) == e.kind = "dict" /\ SumOcc(e.items) > One + Tol
AcceptedInputs == {e \in ElementInputs : ~Over(e)}
OverInputs == {e \in ElementInputs : Over(e)}
SeedInputs ==
    {StrElements(Al),
     DictElements(<<[name |-> X, occupancy |-> One]>>),
     DictElements(<<[name |-> Al, occupancy |-> 3331000], [name |-> Si, occupancy |-> 3334000]>>)}

InitSpecies == call = NoCall /\ ret = Ok /\ BatomAbsent /\ BatomsAbsent

DefineSpecies(S) ==
    \E elements \in S \cup {NoElements} : BatomInit(Al_1, <<<<Origin>>>>, Origin, elements, 2)

ReplaceComposition(S) == \E elements \in S : BatomSetElements(elements)

NextSpecies ==
    \/ DefineSpecies(AcceptedInputs)
    \/ ReplaceComposition(AcceptedInputs)
    \/ BatomMainElement

SpecSpecies == InitSpecies /\ [][NextSpecies]_vars

NextOver ==
    \/ DefineSpecies(SeedInputs \cup OverInputs)
    \/ ReplaceComposition(SeedInputs \cup OverInputs)
    \/ BatomMainElement

SpecOver == InitSpecies /\ [][NextOver]_vars

-----------------------------------------------------------------------------
(* Claims on the species composition *)

-----------------------------------------------------------------------------
(* Sites: one collection in the scene, a Batom or a Batoms *)

MaxSites == 2
MaxAtoms == 4
MaxMult == 2
MaxFrames == 2
MaxCoord == 4

LocSet == {Origin, Vec(0, 1, 0)}
Step == Vec(0, 0, 1)

\* Lattices: a skew one, and one whose third vector is undefined (all zeros)
Skew == <<Vec(2, 0, 0), Vec(1, 2, 0), Vec(0, 0, 3)>>
Flat == <<Vec(2, 0, 0), Vec(1, 2, 0), Vec(0, 0, 0)>>
CellSet == {Skew, Flat}

\* The positions a collection of n sites is built with, and those it is moved to
StartPositions(n) == [i \in 1..n |-> Vec(0, 0, i - 1)]
SitePositions(n) == [i \in 1..n |-> Vec(i - 1, 0, 0)]
SiteSpecies(n) == [i \in 1..n |-> IF i % 2 = 1 THEN Al ELSE Si]

\* Position arrays handed to set_positions on n sites: one of n positions, and one each
\* of a position less and a position more
PositionInputs(n) ==
    {SitePositions(n), SitePositions(n + 1)}
        \cup (IF n > 0 THEN {SitePositions(n - 1)} ELSE {})

\* Multiplicities: an int, or a triple
MultInputs == {<<1>>} \cup {<<x, y, z>> : x \in 1..MaxMult, y \in 1..MaxMult, z \in 1..MaxMult}

Product(m) == Mult(m)[1] * Mult(m)[2] * Mult(m)[3]

\* The box the repeats stay in: at most MaxAtoms sites, and no coordinate of a vertex,
\* of a frame or of a lattice vector beyond MaxCoord
InBox(verts, keys, cell) ==
    /\ Len(verts) <= MaxAtoms
    /\ \A i \in DOMAIN verts, j \in 1..3 : verts[i][j] <= MaxCoord
    /\ \A k \in DOMAIN keys : \A i \in DOMAIN keys[k].data, j \in 1..3 :
            keys[k].data[i][j] <= MaxCoord
    /\ \A i \in 1..3, j \in 1..3 : cell[i][j] <= MaxCoord

\* The indices of S in ascending order
RECURSIVE Ascending(_)
Ascending(S) ==
    IF S = {} THEN <<>>
    ELSE LET hi == CHOOSE x \in S : \A y \in S : y <= x
         IN  Append(Ascending(S \ {hi}), hi)

\* Selections handed to delete on n sites: boolean masks of length n, ascending index
\* lists (the empty one too), and pairs given high index first
IndexInputs(n) ==
    {Mask(mask) : mask \in [1..n -> {0, 1}]}
      \cup {List(Ascending(S)) : S \in SUBSET (0..(n - 1))}
      \cup {List(<<t[2], t[1]>>) : t \in {u \in (0..(n - 1)) \X (0..(n - 1)) : u[1] < u[2]}}

\* k frames made as in the docstring of set_frames: frame i is positions + [0, 0, i]
Trajectory(positions, k) ==
    [i \in 1..k |-> [a \in DOMAIN positions |-> VAdd(positions[a], VScale(i - 1, Step))]]

NewBatom(most, locations) ==
    /\ ~B_coll
    /\ \E n \in 1..most, location \in locations :
          BatomInit(Al_1, <<StartPositions(n)>>, location, NoElements, 2)

NewBatoms(most, cells, locations) ==
    /\ ~b_obj
    /\ ~B_coll
    /\ \E n \in 1..most, cell \in cells, location \in locations, movie \in BOOLEAN :
          BatomsInit(SiteSpecies(n), StartPositions(n), cell, location, movie)

BatomMove == \E positions \in PositionInputs(Len(b_verts)) : BatomSetPositions(positions)

BatomAnimate == \E k \in 1..MaxFrames : BatomSetFrames(Trajectory(SitePositions(Len(b_verts)), k), 0, FALSE)

BatomTile ==
    \E m \in MultInputs, cell \in CellSet :
        /\ Len(b_verts) * Product(m) <= MaxAtoms
        /\ BatomRepeat(m, cell)
        /\ InBox(b_verts', b_keys', cell)

BatomRemove == \E index \in IndexInputs(Len(b_verts)) : BatomDelete(index)

BatomsMove == \E positions \in PositionInputs(Len(B_verts)) : BatomsSetPositions(positions)

BatomsAnimate ==
    \/ BatomsSetFrames(FALSE, <<>>, 0, FALSE)
    \/ \E k \in 1..MaxFrames : BatomsSetFrames(TRUE, Trajectory(SitePositions(Len(B_verts)), k), 0, FALSE)

BatomsTile ==
    \E m \in MultInputs :
        /\ Len(B_verts) * Product(m) <= MaxAtoms
        /\ BatomsRepeat(m)
        /\ InBox(B_verts', B_keys', B_cell')

BatomsRemove == \E index \in IndexInputs(Len(B_verts)) : BatomsDelete(index)

\* Collections of up to MaxSites sites that are moved, animated and repeated
NextSites ==
    \/ NewBatom(MaxSites, LocSet)
    \/ NewBatoms(MaxSites, CellSet, LocSet)
    \/ BatomMove
    \/ BatomAnimate
    \/ BatomTile
    \/ BatomsMove
    \/ BatomsAnimate
    \/ BatomsTile

SpecSites == InitSpecies /\ [][NextSites]_vars

\* Collections of up to MaxAtoms sites, at the origin, that are animated and deleted from
NextRemove ==
    \/ NewBatom(MaxAtoms, {Origin})
    \/ NewBatoms(MaxAtoms, {Skew}, {Origin})
    \/ BatomAnimate
    \/ BatomRemove
    \/ BatomsAnimate
    \/ BatomsRemove

SpecRemove == InitSpecies /\ [][NextRemove]_vars


IsDefine(c) == c.op \in {"Batom", "set_elements"}

C2_FillerAddedGivenKept ==
    (IsDefine(call) /\ ret.err = "" /\ call.elements.kind # "none") =>
        LET e == call.elements
            occu == SumOcc(e.items)
        IN  /\ e.kind = "str" => b_elements = <<[name |-> e.sym, occupancy |-> One]>>
            /\ (e.kind = "dict" /\ e.items # <<>> /\ occu < One - Tol) =>
                    /\ X \in Names(b_elements)
                    /\ DictGet(b_elements, X) = One - occu
                    /\ \A i \in DOMAIN e.items :
                          /\ e.items[i].name \in Names(b_elements)
                          /\ DictGet(b_elements, e.items[i].name) = e.items[i].occupancy
            /\ (e.kind = "dict" /\ occu >= One - Tol) => b_elements = e.items

HasReal(t) == Names(t) \ {X} # {}

\* The real element of the highest stored occupancy, the first defined among equals
BestReal(t) ==
    LET i == CHOOSE i \in DOMAIN t :
                /\ t[i].name # X
                /\ \A j \in DOMAIN t : t[j].name # X => t[j].occupancy <= t[i].occupancy
                /\ \A j \in 1..(i - 1) : t[j].name # X => t[j].occupancy < t[i].occupancy
    IN  t[i].name

\* C3: for a stored table with sum <= 1 and a real element, main_element returns the real
\* element of the highest occupancy as defined, the first defined among equals, never X.
C3_MainElementIsHighest ==
    (call.op = "main_element" /\ HasReal(b_elements) /\ SumOcc(b_elements) <= One) =>
        (ret.err = "" /\ ret.val = BestReal(b_elements))

\* C4: main_element of a species whose only element is X raises and returns no symbol,
\* and the query changes nothing.
C4_OnlyVacancyRaises ==
    [][(call'.op = "main_element" /\ Names(b_elements) = {X}) =>
            (ret'.err = "IndexError" /\ ret'.val \notin Symbols /\ UNCHANGED <<bvars, Bvars>>)]_vars

\* C4 witness: the query was made on a species that holds X alone
C4_Witness ==
    call.op = "main_element" /\ b_obj /\ Names(b_elements) = {X} /\ ret.err = "IndexError"

-----------------------------------------------------------------------------
(* Sites: positions, repeat, delete *)

\* C5: set_positions with an array whose length is not the number of sites raises, on
\* a Batom and on a Batoms, and the step leaves the mesh vertices and every key block
\* (the rest-pose block among them) as they were.
C5_WrongLengthRejected ==
    [][/\ (call'.op = "Batom.set_positions" /\ Len(call'.positions) # Len(b_verts)) =>
            (ret'.err # "" /\ b_verts' = b_verts /\ b_keys' = b_keys)
       /\ (call'.op = "Batoms.set_positions" /\ Len(call'.positions) # Len(B_verts)) =>
            (ret'.err # "" /\ B_verts' = B_verts /\ B_keys' = B_keys)]_vars

\* C5 witness: a Batoms that holds frames refused an array of another length
C5_Witness ==
    /\ call.op = "Batoms.set_positions" /\ ret.err = "ValueError"
    /\ Len(call.positions) # Len(B_verts)
    /\ Len(B_keys) > 1

\* C6: at the identity placement (location at the origin), after set_positions(p) with p
\* of the collection's length, the call has succeeded and get_positions() is p, on a
\* Batom and on a Batoms, with or without frames.
C6_RoundTrip ==
    /\ (call.op = "Batom.set_positions" /\ b_location = Origin
            /\ Len(call.positions) = Len(b_verts)) =>
          (ret.err = "" /\ BatomGetPositions = call.positions)
    /\ (call.op = "Batoms.set_positions" /\ B_location = Origin
            /\ Len(call.positions) = Len(B_verts)) =>
          (ret.err = "" /\ BatomsGetPositions = call.positions)

\* m0 * a + m1 * b + m2 * c
LatticeShift(m0, m1, m2, cell) ==
    VAdd(VAdd(VScale(m0, cell[1]), VScale(m1, cell[2])), VScale(m2, cell[3]))

\* after is before repeated m times over cell: n * mx * my * mz entries, block
\* (m0, m1, m2), counted with m2 fastest, is before shifted by m0 * a + m1 * b + m2 * c
Repeated(before, after, m, cell) ==
    LET n == Len(before)
    IN  /\ Len(after) = n * m[1] * m[2] * m[3]
        /\ \A m0 \in 0..(m[1] - 1), m1 \in 0..(m[2] - 1), m2 \in 0..(m[3] - 1), i \in 1..n :
              after[n * ((m0 * m[2] + m1) * m[3] + m2) + i]
                  = VAdd(before[i], LatticeShift(m0, m1, m2, cell))

\* C7: a repeat that returns leaves n * mx * my * mz sites: the first n are the sites as
\* they were, and every following block of n is the same sequence shifted by
\* m0 * a + m1 * b + m2 * c, the blocks in the order m2 fastest, then m1, then m0.
C7_RepeatTiles ==
    [][/\ (call'.op = "Batom.repeat" /\ ret'.err = "") =>
            Repeated(BatomGetPositions, local2global(b_verts', b_location', FALSE),
                     Mult(call'.m), call'.cell)
       /\ (call'.op = "Batoms.repeat" /\ ret'.err = "") =>
            Repeated(BatomsGetPositions, local2global(B_verts', B_location', FALSE),
                     Mult(call'.m), B_cell)]_vars

\* C7 witness: a Batoms of one site was repeated twice along a and twice along b
C7_Witness ==
    /\ call.op = "Batoms.repeat" /\ ret.err = ""
    /\ call.m = <<2, 2, 1>>
    /\ Len(B_verts) = 4

\* A multiplicity above 1 is asked along a lattice vector that is all zeros
ZeroAlong(m, cell) == \E i \in 1..3 : m[i] > 1 /\ cell[i] = Origin

\* C8: a repeat that asks a multiplicity above 1 along an all-zero lattice vector raises,
\* and the step changes nothing (no site, position, attribute, frame or cell); any other
\* repeat, multiplicity 1 along a zero vector included, is accepted.
C8_UndefinedLatticeRejected ==
    [][/\ call'.op = "Batom.repeat" =>
            IF ZeroAlong(Mult(call'.m), call'.cell)
            THEN ret'.err = "ValueError" /\ UNCHANGED <<bvars, Bvars>>
            ELSE ret'.err = ""
       /\ call'.op = "Batoms.repeat" =>
            IF ZeroAlong(Mult(call'.m), B_cell)
            THEN ret'.err = "ValueError" /\ UNCHANGED <<bvars, Bvars>>
            ELSE ret'.err = ""]_vars

\* C8 witness: a Batoms that holds frames refused a repeat along its zero lattice vector
C8_Witness ==
    /\ call.op = "Batoms.repeat" /\ ret.err = "ValueError"
    /\ Mult(call.m)[3] > 1 /\ B_cell[3] = Origin
    /\ Len(B_keys) > 1 /\ Len(B_verts) > 1

\* C9: at the identity placement, a repeat of a collection that holds k > 1 frames
\* leaves k frames, and every frame after the rest pose is that frame as it was,
\* repeated over the lattice as it was before the repeat.
C9_FramesFollowBlocks ==
    [][/\ (call'.op = "Batom.repeat" /\ ret'.err = "" /\ Len(b_keys) > 1
              /\ b_location = Origin) =>
            /\ Len(b_keys') = Len(b_keys)
            /\ \A j \in 2..Len(b_keys) :
                  Repeated(get_frames(b_keys, b_location)[j],
                           get_frames(b_keys', b_location')[j], Mult(call'.m), call'.cell)
       /\ (call'.op = "Batoms.repeat" /\ ret'.err = "" /\ Len(B_keys) > 1
              /\ B_location = Origin) =>
            /\ Len(B_keys') = Len(B_keys)
            /\ \A j \in 2..Len(B_keys) :
                  Repeated(get_frames(B_keys, B_location)[j],
                           get_frames(B_keys', B_location')[j], Mult(call'.m), B_cell)]_vars

\* Site i (counted from 0) is selected by index
Selected(index, i) ==
    IF index.kind = "mask"
    THEN i + 1 <= Len(index.items) /\ index.items[i + 1] = 1
    ELSE \E j \in DOMAIN index.items : index.items[j] = i

Survivors(n, index) == {i \in 0..(n - 1) : ~Selected(index, i)}

\* after holds the entries of before that are not selected, in their order, numbered
\* from 0 without gap
Kept(before, after, index) ==
    LET left == Survivors(Len(before), index)
    IN  /\ Len(after) = Cardinality(left)
        /\ \A i \in left : after[Cardinality({j \in left : j < i}) + 1] = before[i + 1]

-----------------------------------------------------------------------------
(* Claims on the Instance, the materials and the frames *)

\* C11: a delete that removes every site leaves neither the Instance nor the object
\* that holds the sites in the scene; a delete that leaves a site leaves both, the
\* Instance being the object it was.
C11_DeleteAllReleases ==
    [][/\ (call'.op = "Batom.delete" /\ call'.index.items # <<>>) =>
            IF Survivors(Len(b_verts), call'.index) = {}
            THEN ~b_obj' /\ ~b_inst'
            ELSE b_obj' /\ b_inst' /\ b_instancer' = b_instancer
       /\ (call'.op = "Batoms.delete" /\ call'.index.items # <<>>) =>
            IF Survivors(Len(B_verts), call'.index) = {}
            THEN ~B_obj'
            ELSE B_obj']_vars

-----------------------------------------------------------------------------
(* SpecMaterials: a species on a cube or a sphere, with tables of quarter occupancies, *)
(* whose composition is replaced, whose materials are assigned again and whose shape   *)
(* is set.                                                                             *)

WedgeOcc == {One \div 4, One \div 2, (3 * One) \div 4}

WedgeInputs ==
    {StrElements(Al)}
      \cup {DictElements(<<[name |-> e, occupancy |-> o]>>) : e \in {Al, Si}, o \in WedgeOcc}
      \cup {DictElements(<<[name |-> e[1], occupancy |-> o[1]], [name |-> e[2], occupancy |-> o[2]]>>) :
               e \in {<<Al, Si>>, <<Si, Al>>},
               o \in {q \in WedgeOcc \X WedgeOcc : q[1] + q[2] <= One}}

DefineWedge ==
    \E elements \in WedgeInputs, shape \in {0, 2} :
        BatomInit(Al_1, <<<<Origin>>>>, Origin, elements, shape)

ReplaceWedge == \E elements \in WedgeInputs : BatomSetElements(elements)

Reshape == \E shape \in {0, 2, 3} : BatomSetShape(shape)

NextMaterials ==
    \/ DefineWedge
    \/ ReplaceWedge
    \/ BatomAssignMaterials
    \/ Reshape

SpecMaterials == InitSpecies /\ [][NextMaterials]_vars

\* The elements as assign_materials orders them, and the sum of the first i occupancies
Ordered == SortDesc(get_elements(b_elements))
Cumulative(i) == SumOcc(SubSeq(Ordered, 1, i))

\* C12: with more than one element, ordered by descending occupancy, a face whose
\* angle lies in [c(i-1), c(i)) has the material of element i, c(i) being the sum of
\* the occupancies of the elements 0 .. i and c(-1) being 0.
C12_BandsFollowCumulative ==
    (b_inst /\ Len(Ordered) > 1) =>
        \A f \in DOMAIN b_angles, i \in DOMAIN Ordered :
            (Cumulative(i - 1) <= b_angles[f] /\ b_angles[f] < Cumulative(i)) =>
                b_matidx[f] = i - 1

\* The band the loop of assign_materials gives to the element of slot i >= 1
BandStart(i) == Cumulative(i + 1) - Cumulative(1) - Ordered[i + 1].occupancy
BandEnd(i) == Cumulative(i + 1) - Cumulative(1)

\* C13: the faces of a minority element lie in one band as wide as its occupancy, every
\* face strictly inside the band is the element's, and a face on the boundary that two
\* minority bands share has the material of one of the two.
C13_BandsAreContiguous ==
    (b_inst /\ Len(Ordered) > 1) =>
        \A f \in DOMAIN b_angles, i \in 1..(Len(Ordered) - 1) :
            /\ (BandStart(i) < b_angles[f] /\ b_angles[f] < BandEnd(i)) => b_matidx[f] = i
            /\ b_matidx[f] = i => (BandStart(i) <= b_angles[f] /\ b_angles[f] <= BandEnd(i))
            /\ (b_angles[f] = BandEnd(i) /\ i + 1 < Len(Ordered)) => b_matidx[f] \in {i, i + 1}

\* C14: assign_materials run again on the same table and mesh leaves the material index
\* of every face and the ordered material slots as they were.
C14_AssignIdempotent ==
    [][(call'.op = "assign_materials" /\ ret'.err = "") =>
            (b_matidx' = b_matidx /\ b_slots' = b_slots)]_vars

\* C14 witness: the materials of a species of several elements, some face of which has
\* a minority material, were assigned again
C14_Witness ==
    /\ call.op = "assign_materials" /\ ret.err = ""
    /\ Len(b_slots) > 1
    /\ \E f \in DOMAIN b_matidx : b_matidx[f] # 0

\* What assign_materials gives on a mesh as it is built, every face on slot 0
FreshAssignment ==
    assign_materials(b_elements, b_angles, [f \in DOMAIN b_angles |-> 0])

\* C15: after any sequence of set_elements calls the material index of every face is
\* the one the assignment gives from the table and the face normals alone, as on an
\* Instance just built.
C15_AssignmentFromTableAlone ==
    (b_obj /\ b_inst) =>
        (b_matidx = FreshAssignment.matidx /\ b_slots = FreshAssignment.slots)

\* C15 witness: set_elements left a single element on a species that had a table of
\* other elements before, and every face is on slot 0
C15_Witness ==
    /\ call.op = "set_elements" /\ ret.err = ""
    /\ Len(b_slots) = 1
    /\ Cardinality(b_mats) > 1
    /\ \A f \in DOMAIN b_matidx : b_matidx[f] = 0

-----------------------------------------------------------------------------
(* SpecInstance: a species whose shape, segments, subdivisions, radius style, scale *)
(* and composition are set, in any order.                                           *)

NextInstance ==
    \/ \E elements \in SeedInputs, shape \in {0, 1, 2} :
          BatomInit(Al_1, <<<<Origin>>>>, Origin, elements, shape)
    \/ \E shape \in {0, 1, 2, 3} : BatomSetShape(shape)
    \/ \E segments \in {<<TRUE, <<8>>>>, <<FALSE, <<8, 4>>>>} :
          BatomSetSegments(segments[1], segments[2])
    \/ \E subdivisions \in {<<TRUE, <<1>>>>, <<FALSE, <<>>>>} :
          BatomSetSubdivisions(subdivisions[1], subdivisions[2])
    \/ \E radius_style \in RadiusStyles : BatomSetRadiusStyle(radius_style)
    \/ \E scale \in {One, 2 * One} : BatomSetScale(scale)
    \/ \E elements \in SeedInputs : BatomSetElements(elements)

SpecInstance == InitSpecies /\ [][NextInstance]_vars

\* The species has one object under the instancer name, parented to the object that
\* holds the sites
OneInstance == b_obj /\ b_inst /\ b_instancer.id # 0 /\ b_instancer.parent

InstanceSetters ==
    {"set_shape", "set_segments", "set_subdivisions", "set_radius_style", "set_scale",
     "set_elements"}

\* C16: a species has exactly one Instance, parented to the site object, after it is
\* constructed and after every successful set_shape, set_segments, set_subdivisions,
\* set_radius_style, set_scale or set_elements call made while it has one.
C16_OneInstance ==
    /\ []((call.op = "Batom" /\ ret.err = "") => OneInstance)
    /\ [][(OneInstance /\ call'.op \in InstanceSetters /\ ret'.err = "") => OneInstance']_vars

\* C16 witness: a successful call left the species with an Instance built anew, of
\* another shape and radius than the ones it was constructed with
C16_Witness ==
    /\ call.op \in {"set_shape", "set_subdivisions", "set_radius_style"} /\ ret.err = ""
    /\ OneInstance
    /\ b_instancer.id = 2
    /\ b_style = "vdw"
    /\ b_instancer.shape = "CUBE"
    /\ b_instancer.scale = <<2 * One, 2 * One, 2 * One>>

-----------------------------------------------------------------------------
(* SpecLabels: species labels with and without a suffix, in a Batom, in a Batoms and *)
(* in the replace of sites of a Batoms.                                              *)

Si_up == <<"S", "i", "_", "u", "p">>
LabelSet == {Al, Al_1, Si_up}

NextLabels ==
    \/ /\ ~B_coll
       /\ \E species \in LabelSet : BatomInit(species, <<StartPositions(1)>>, Origin, NoElements, 0)
    \/ /\ ~b_obj
       /\ ~B_coll
       /\ \E n \in 1..MaxSites : \E species \in [1..n -> LabelSet] :
             BatomsInit(species, StartPositions(n), Skew, Origin, FALSE)
    \/ \E indices \in {<<0>>, <<1>>, <<0, 1>>}, species \in LabelSet,
          elements \in {NoElements, DictElements(Pure(Si))} :
             BatomsReplace(indices, species, elements)

SpecLabels == InitSpecies /\ [][NextLabels]_vars

\* The species label is in the registry of the Batoms, as one element: the characters
\* of the label before its first underscore, with occupancy 1
DefinedByPrefix(registry, label) ==
    [label |-> label, elements |-> Pure(SplitFirst(label))] \in registry

\* C17: a label given without a composition is defined as the single element named by
\* the characters before its first underscore, with occupancy 1: by the constructor of
\* a Batom, by the constructor of a Batoms, and by a replace that brings in a label the
\* Batoms does not have.
C17_LabelPrefixDefines ==
    /\ []((call.op = "Batom" /\ call.elements.kind = "none" /\ ret.err = "") =>
              b_elements = Pure(SplitFirst(call.species)))
    /\ []((call.op = "Batoms" /\ ret.err = "") =>
              \A i \in DOMAIN call.species : DefinedByPrefix(B_species, call.species[i]))
    /\ [][(/\ call'.op = "Batoms.replace"
           /\ call'.elements.kind = "none"
           /\ ~(\E r \in B_species : r.label = call'.species)) =>
              DefinedByPrefix(B_species', call'.species)]_vars

-----------------------------------------------------------------------------
(* SpecExtend: collections that are extended by other collections, which are *)
(* animated or not.                                                          *)

\* The sites of the other collection: off the z axis, where StartPositions are
OtherPositions(k) == [i \in 1..k |-> Vec(i, i, 0)]

Hows == {"extend", "__iadd__", "__add__"}

NextExtend ==
    \/ NewBatom(MaxSites, LocSet)
    \/ NewBatoms(MaxSites, {Skew}, LocSet)
    \/ BatomAnimate
    \/ \E how \in Hows, k \in 1..MaxSites, location \in LocSet :
          /\ Len(b_verts) + k <= MaxAtoms
          /\ BatomExtend(how, OtherBatom(OtherPositions(k), location))
    \/ \E how \in Hows, k \in 1..MaxSites, location \in LocSet, movie \in BOOLEAN :
          /\ Len(B_verts) + k <= MaxAtoms
          /\ BatomsExtend(how, OtherBatoms(SiteSpecies(k), OtherPositions(k), location, movie))

SpecExtend == InitSpecies /\ [][NextExtend]_vars

\* after holds the sites of before, then those of other, at the places they had in
\* the scene
Extended(before, location, after, location1, other) ==
    LET n == Len(before)
        k == Len(other.verts)
    IN  /\ Len(after) = n + k
        /\ \A i \in 1..n : VAdd(after[i], location1) = VAdd(before[i], location)
        /\ \A j \in 1..k : VAdd(after[n + j], location1) = VAdd(other.verts[j], other.location)

\* C18: a.extend(b) leaves a with the sites it had, at their indices and positions,
\* followed by the sites of b in the order of b; a += b and a + b do the same to a and
\* return a.
C18_ExtendAppends ==
    [][/\ call'.op = "Batom.extend" =>
            /\ ret'.err = ""
            /\ Extended(b_verts, b_location, b_verts', b_location', call'.other)
            /\ call'.how # "extend" => ret'.val = <<"self">>
       /\ call'.op = "Batoms.extend" =>
            /\ ret'.err = ""
            /\ Extended(B_verts, B_location, B_verts', B_location', call'.other)
            /\ call'.how # "extend" => ret'.val = <<"self">>]_vars

\* C18 witness: a Batoms of two sites, away from the origin, was extended with + by a
\* collection of two sites at the origin
C18_Witness ==
    /\ call.op = "Batoms.extend" /\ call.how = "__add__" /\ ret.val = <<"self">>
    /\ B_location # Origin /\ call.other.location = Origin
    /\ Len(call.other.verts) = 2
    /\ Len(B_verts) = 4

-----------------------------------------------------------------------------
(* SpecFrames: collections at the origin whose sites are moved and whose frames are *)
(* set, once and again, from trajectories of several lengths and frame starts.      *)

StartSet == {0, 1}

NextFrames ==
    \/ NewBatom(MaxSites, {Origin})
    \/ NewBatoms(MaxSites, {Skew}, {Origin})
    \/ BatomSetPositions(SitePositions(Len(b_verts)))
    \/ BatomsSetPositions(SitePositions(Len(B_verts)))
    \/ \E k \in 1..(MaxFrames + 1), frame_start \in StartSet :
          BatomSetFrames(Trajectory(SitePositions(Len(b_verts)), k), frame_start, FALSE)
    \/ \E frame_start \in StartSet : BatomsSetFrames(FALSE, <<>>, frame_start, FALSE)
    \/ \E k \in 1..(MaxFrames + 1), frame_start \in StartSet :
          BatomsSetFrames(TRUE, Trajectory(SitePositions(Len(B_verts)), k), frame_start, FALSE)

SpecFrames == InitSpecies /\ [][NextFrames]_vars

\* The keyframes set_frames is to register for k frames from frame_start s on
Registered(kf, s, k) ==
    \A i \in 1..(k - 1) :
        /\ [key |-> i, t |-> s + i - 1, v |-> 0] \in kf
        /\ [key |-> i, t |-> s + i, v |-> 1] \in kf
        /\ i < k - 1 => [key |-> i, t |-> s + i + 1, v |-> 0] \in kf

\* At every time from s + 1 to s + k - 1, one frame other than the rest pose has a
\* keyframe of weight 1, the other keyframes at that time being of weight 0
OneAtATime(kf, s, k) ==
    \A t \in (s + 1)..(s + k - 1) :
        Cardinality({x \in kf : x.key # Basis /\ x.t = t /\ x.v = 1}) = 1

\* C19: set_frames(frames, frame_start = s) with k frames leaves on the weight of
\* frame i, 1 <= i < k - 1, the keyframes 0 at s + i - 1, 1 at s + i and 0 at s + i + 1,
\* and on that of frame k - 1 the keyframes 0 at s + k - 2 and 1 at s + k - 1; at every
\* time from s + 1 to s + k - 1 one frame other than the rest pose has weight 1 and
\* every other such frame with a keyframe at that time has weight 0.
C19_OneFrameAtATime ==
    [][/\ (call'.op = "Batom.set_frames" /\ ret'.err = "") =>
            /\ Registered(b_kf', call'.frame_start, Len(call'.frames))
            /\ OneAtATime(b_kf', call'.frame_start, Len(call'.frames))
       /\ (call'.op = "Batoms.set_frames" /\ call'.given /\ ret'.err = "") =>
            /\ Registered(B_kf', call'.frame_start, Len(call'.frames))
            /\ OneAtATime(B_kf', call'.frame_start, Len(call'.frames))]_vars

\* C20: after set_frames(frames), at the identity placement, the rest pose that
\* get_frames reads back is frames[0].
C20_RestPoseWritten ==
    [][/\ (call'.op = "Batom.set_frames" /\ ret'.err = "" /\ Len(call'.frames) > 0) =>
            get_frames(b_keys', b_location')[1] = call'.frames[1]
       /\ (call'.op = "Batoms.set_frames" /\ call'.given /\ ret'.err = ""
              /\ Len(call'.frames) > 0) =>
            get_frames(B_keys', B_location')[1] = call'.frames[1]]_vars

-----------------------------------------------------------------------------
(* SpecBasis: collections at the origin, a Batom built from a trajectory, whose *)
(* frames are set with and without only_basis, from no frame to several.        *)

NextBasis ==
    \/ /\ ~B_coll
       /\ \E n \in 1..MaxSites, k \in 1..(MaxFrames + 1) :
             BatomInit(Al_1, Trajectory(StartPositions(n), k), Origin, NoElements, 2)
    \/ NewBatoms(MaxSites, {Skew}, {Origin})
    \/ \E k \in 0..(MaxFrames + 1), only_basis \in BOOLEAN :
          BatomSetFrames(Trajectory(SitePositions(Len(b_verts)), k), 0, only_basis)
    \/ \E k \in 0..(MaxFrames + 1), only_basis \in BOOLEAN :
          BatomsSetFrames(TRUE, Trajectory(SitePositions(Len(B_verts)), k), 0, only_basis)

SpecBasis == InitSpecies /\ [][NextBasis]_vars

\* after is before, or before and a rest pose added to it
AtMostBasisAdded(before, after) ==
    \/ after = before
    \/ /\ ~HasKey(before, Basis)
       /\ Len(after) = Len(before) + 1
       /\ SubSeq(after, 1, Len(before)) = before
       /\ after[Len(after)].name = Basis

\* C21: set_frames(frames, only_basis = True) with one frame or more adds the rest pose
\* at most, no later frame and no keyframe; a Batom constructed from a trajectory has
\* one frame, whatever the length of the trajectory; set_frames with no frame changes
\* nothing.
C21_OnlyBasis ==
    /\ []((call.op = "Batom" /\ ret.err = "") => (Len(b_keys) = 1 /\ b_kf = {}))
    /\ [][/\ (call'.op = "Batom.set_frames" /\ call'.only_basis /\ Len(call'.frames) > 0) =>
               (ret'.err = "" /\ AtMostBasisAdded(b_keys, b_keys') /\ b_kf' = b_kf)
          /\ (call'.op = "Batoms.set_frames" /\ call'.only_basis /\ Len(call'.frames) > 0) =>
               (ret'.err = "" /\ AtMostBasisAdded(B_keys, B_keys') /\ B_kf' = B_kf)
          /\ (call'.op \in {"Batom.set_frames", "Batoms.set_frames"} /\ Len(call'.frames) = 0) =>
               (ret'.err = "" /\ UNCHANGED <<bvars, Bvars>>)]_vars

\* C21 witness: a Batom constructed from a trajectory of three frames, its frames set
\* from three frames with only_basis, has one frame
C21_Witness ==
    /\ call.op = "Batom.set_frames" /\ call.only_basis /\ ret.err = ""
    /\ Len(call.frames) = 3
    /\ Len(b_frames) = 3
    /\ Len(b_keys) = 1

\* C22: once the frames are set from a trajectory of k >= 1 frames, only_basis false,
\* by the constructor of a Batoms with movie or by set_frames, the collection has k
\* frames, whatever frames were set before.
C22_FrameCountIsLength ==
    /\ []((call.op = "Batoms" /\ call.movie /\ ret.err = "") => Len(B_keys) = Len(B_frames))
    /\ [][/\ (call'.op = "Batom.set_frames" /\ ~call'.only_basis /\ ret'.err = ""
                 /\ Len(call'.frames) > 0) =>
               Len(b_keys') = Len(call'.frames)
          /\ (call'.op = "Batoms.set_frames" /\ ~call'.only_basis /\ ret'.err = ""
                 /\ call'.given /\ Len(call'.frames) > 0) =>
               Len(B_keys') = Len(call'.frames)]_vars

\* ---------------------------------------------------------------------------
\* Creation under a name that is taken
\* ---------------------------------------------------------------------------

NextNames ==
    \/ HostObject
    \/ \E n \in 1..MaxSites, cell \in CellSet, location \in LocSet, movie \in BOOLEAN :
          BatomsInit(SiteSpecies(n), StartPositions(n), cell, location, movie)

SpecNames == InitSpecies /\ [][NextNames]_vars

\* The name a Batoms is to take is already used by a collection, or by an object
\* that is not a batoms object
NameInUse == B_coll \/ (B_obj /\ ~B_flag)

\* C23: creating a Batoms under a name already in use fails and leaves the scene as
\* it was: no collection, sub-collection or object is added by the failed call
C23_FailedCreationLeavesScene ==
    [][(call'.op = "Batoms" /\ NameInUse)
          => (ret'.err # "" /\ UNCHANGED <<bvars, Bvars>>)]_vars

\* ---------------------------------------------------------------------------
\* Repeating and replacing
\* ---------------------------------------------------------------------------

RepeatOps == {"Batoms.repeat", "Batoms.__imul__", "Batoms.__mul__"}

NextRepeat ==
    \/ /\ ~B_coll
       /\ \E n \in 1..MaxSites, movie \in BOOLEAN :
             BatomsInit(SiteSpecies(n), StartPositions(n), Skew, Origin, movie)
    \/ \E how \in RepeatOps, m \in {<<1>>, <<MaxMult, 1, 1>>, <<1, 1, MaxMult>>} :
          /\ Len(B_verts) * Product(m) <= MaxAtoms
          /\ BatomsImul(how, m)
    \/ \E indices \in {<<0>>, <<1>>, <<0, 2>>}, species \in LabelSet :
          BatomsReplace(indices, species, NoElements)

SpecRepeat == InitSpecies /\ [][NextRepeat]_vars

\* C24: each of b * m, b *= m and b.repeat(m) yields the repeated Batoms itself, with
\* n * mx * my * mz sites, and never None
C24_RepeatYieldsSelf ==
    [][(call'.op \in RepeatOps /\ ret'.err = "")
          => /\ ret'.val = <<"self">>
             /\ Len(B_verts') = Len(B_verts) * Product(call'.m)]_vars

\* C25: set_segments with an integer, and set_shape, either succeed and leave one
\* rebuilt Instance of the scale and radius the species had, or fail and leave the
\* Instance the species had; a species with an Instance never ends a call without one
C25_InstanceKeptOrRebuilt ==
    [][(OneInstance /\ call'.op \in {"set_segments", "set_shape"})
          => IF ret'.err = ""
             THEN /\ OneInstance'
                  /\ b_instancer'.id # b_instancer.id
                  /\ b_instancer'.scale = b_instancer.scale
                  /\ b_instancer'.radius = b_instancer.radius
             ELSE b_inst' /\ b_instancer' = b_instancer]_vars

\* C26: after the constructor and after any sequence of set_elements calls the
\* Instance has one material slot for every element of the current table, and the
\* material index of every face is below the number of slots
C26_IndicesWithinSlots ==
    (b_obj /\ b_inst) =>
        /\ Len(b_slots) = Len(b_elements)
        /\ \A f \in DOMAIN b_matidx : b_matidx[f] >= 0 /\ b_matidx[f] < Len(b_slots)

\* C26 witness: set_elements left a table of two elements on a species with an
\* Instance, and a face is on the last slot there is
C26_Witness ==
    /\ call.op = "set_elements" /\ ret.err = ""
    /\ b_obj /\ b_inst
    /\ Len(b_elements) = 2
    /\ \E f \in DOMAIN b_matidx : b_matidx[f] = Len(b_slots) - 1

\* C27: on a Batoms, after the constructor and any sequence of replace and repeat, the
\* species and species_index attributes have one entry per site and the species_index
\* of each site is string2Number of its species label; a replace changes these two
\* attributes at the given indices only and leaves the sites and their positions
C27_SpeciesIndexFollowsLabel ==
    /\ [](B_obj =>
            /\ Len(B_attrs.species) = Len(B_verts)
            /\ Len(B_attrs.species_index) = Len(B_verts)
            /\ \A i \in DOMAIN B_verts :
                  B_attrs.species_index[i] = string2Number(B_attrs.species[i]))
    /\ [][(call'.op = "Batoms.replace" /\ ret'.err = "")
            => /\ B_verts' = B_verts
               /\ B_keys' = B_keys
               /\ \A key \in DOMAIN B_attrs \ {"species", "species_index"} :
                     B_attrs'[key] = B_attrs[key]
               /\ \A i \in DOMAIN B_verts :
                     IF \E j \in DOMAIN call'.indices : call'.indices[j] = i - 1
                     THEN /\ B_attrs'.species[i] = call'.species
                          /\ B_attrs'.species_index[i] = string2Number(call'.species)
                     ELSE /\ B_attrs'.species[i] = B_attrs.species[i]
                          /\ B_attrs'.species_index[i] = B_attrs.species_index[i]]_vars

\* C27 witness: a replace gave one site of a repeated Batoms a label that no other
\* site has, after which the Batoms has four sites of three different labels
C27_Witness ==
    /\ call.op = "Batoms.replace" /\ ret.err = ""
    /\ Len(B_verts) = 4
    /\ Cardinality({B_attrs.species[i] : i \in DOMAIN B_verts}) = 3
    /\ \E i \in DOMAIN B_verts : \A j \in DOMAIN B_verts :
          B_attrs.species[j] = B_attrs.species[i] => j = i

\* C28: the occupancies of the table that check_elements accepts and the definition
\* stores, the filler included, sum to 1 within 1e-6, also when the given table
\* already has an entry X
C28_StoredTableSumsToOne ==
    (IsDefine(call) /\ ret.err = "") =>
        /\ SumOcc(b_elements) >= One - Tol
        /\ SumOcc(b_elements) <= One + Tol

\* ---------------------------------------------------------------------------
\* Model styles and scales
\* ---------------------------------------------------------------------------

ScaleInputs ==
    {[kind |-> "num", val |-> v, items |-> <<>>] : v \in {One, 2 * One}}
      \cup {[kind |-> "dict", val |-> 0, items |-> <<[label |-> sp, value |-> 2 * One]>>] :
               sp \in {Al, Si}}

NextStyle ==
    \/ /\ ~B_coll
       /\ \E n \in 1..MaxSites :
             BatomsInit(SiteSpecies(n), StartPositions(n), Skew, Origin, FALSE)
    \/ \E model_style \in 0..3 : BatomsSetModelStyle(model_style)
    \/ \E polyhedra_style \in 0..3 : BatomsSetPolyhedraStyle(polyhedra_style)
    \/ \E scale \in ScaleInputs : BatomsSetScale(scale)
    \/ \E sp \in {Al, Si} : BatomsSetSize(<<[label |-> sp, value |-> One]>>)

SpecStyle == InitSpecies /\ [][NextStyle]_vars

\* The attributes set_model_style(s) leaves on a Batoms of these species as it is
\* constructed, under the polyhedra style in force
StyledFresh(species, s, polyhedra_style) ==
    draw([init_attributes(species, Len(species)) EXCEPT
             !.model_style = [i \in DOMAIN @ |-> s]], polyhedra_style)

\* C29: set_model_style(s) leaves on every site the scale and the show that s and the
\* polyhedra style give on a Batoms just constructed, whatever styles were set before;
\* setting the same style again changes nothing
C29_StyleAloneDetermines ==
    [][(call'.op = "Batoms.set_model_style" /\ ret'.err = "")
          => LET fresh == StyledFresh(B_attrs.species, call'.model_style, B_polyhedra_style)
             IN  /\ B_attrs'.scale = fresh.scale
                 /\ B_attrs'.show = fresh.show
                 /\ draw(B_attrs', B_polyhedra_style) = B_attrs']_vars

\* C30: set_scale with a mapping from species label to value sets the scale of every
\* site of the named species and leaves the other sites; with a number it sets the
\* scale of every site; set_size completes without error
C30_ScaleBySpecies ==
    [][/\ call'.op = "Batoms.set_scale" =>
            /\ ret'.err = ""
            /\ \A i \in DOMAIN B_verts :
                  B_attrs'.scale[i] =
                     IF call'.scale.kind = "num" THEN call'.scale.val
                     ELSE IF \E j \in DOMAIN call'.scale.items :
                                call'.scale.items[j].label = B_attrs.species[i]
                     THEN call'.scale.items[CHOOSE j \in DOMAIN call'.scale.items :
                              call'.scale.items[j].label = B_attrs.species[i]].value
                     ELSE B_attrs.scale[i]
       /\ call'.op = "Batoms.set_size" => ret'.err = ""]_vars

====
